---------------------------- MODULE Spec2Model ----------------------------
(***************************************************************************)
(* A model of the recursive_array crate (src/src/lib.rs).                  *)
(*                                                                         *)
(* The crate builds fixed-length arrays out of nested types and views the  *)
(* memory of such a value as a flat slice of T.  The model therefore keeps *)
(* memory explicit: a value is a type tree together with the bytes the     *)
(* compiler lays out for it (repr(C) / repr(transparent) rules), a slice   *)
(* is a pointer and a length, and reading a slice decodes the bytes it     *)
(* points at.  Padding and bytes outside an allocation are Uninit, and an  *)
(* element decoded from such bytes is Poison: such a read is undefined     *)
(* behaviour, and C1_Layout shows that no value the program can build has  *)
(* a byte of that kind within the LENGTH elements a slice covers.          *)
(*                                                                         *)
(* A value also sits at an address, which its own alignment allows.        *)
(* as_slice and as_mut_slice hand that address to from_raw_parts as a      *)
(* pointer to T; when it is not aligned for T the call is undefined        *)
(* behaviour, and the model gives both outcomes builds produce: the abort  *)
(* of a build with debug assertions and the slice an optimized build       *)
(* returns.                                                                *)
(***************************************************************************)
EXTENDS Integers, Sequences, FiniteSets

VARIABLES
    T,      \* the element type: its size_of and align_of
    cur,    \* the recursive array the program owns: [ty, mem]
    addr,   \* the address the recursive array sits at
    buf,    \* a native [T] buffer lent out by from_mut_slice: [len, mem]
    view,   \* the outstanding mutable borrow: none, a &mut [T] or a &mut Self
    steps,  \* how many building steps the program has taken
    last    \* what the last operation was given and what it returned

vars == <<T, cur, addr, buf, view, steps, last>>

(***************************************************************************)
(* Bounds of the model.                                                    *)
(***************************************************************************)
MaxLen == 4        \* largest LENGTH a built value may have
MaxSteps == 1      \* most building steps after the first value
MaxWrites == 2     \* most writes through one mutable borrow
MaxArgs == 3       \* most arguments given to recursive_array!
MaxMul == 2        \* largest N of a RecursiveArrayMultiplier built by a step

Items == {10, 40}
WriteItems == {20, 40}
PatternAt(i) == 10 * (((i - 1) % 4) + 1)
PatternSeq(from, n) == [i \in 1..n |-> PatternAt(from + i - 1)]
TLayouts == { [size |-> 1, align |-> 1],
              [size |-> 4, align |-> 2] }

Uninit == 0 - 1
Poison == 0 - 1

Max(a, b) == IF a >= b THEN a ELSE b
AlignUp(n, a) == ((n + a - 1) \div a) * a

RECURSIVE Pow256(_)
Pow256(k) == IF k = 0 THEN 1 ELSE 256 * Pow256(k - 1)

(***************************************************************************)
(* The types.                                                              *)
(***************************************************************************)
TEmpty == [k |-> "Empty"]
TSingle == [k |-> "Single"]
TWrapper(n) == [k |-> "Wrapper", n |-> n]
TConcat(A, B) == [k |-> "Concat", a |-> A, b |-> B]
TMult(n, A) == [k |-> "Mult", n |-> n, a |-> A]
\* some other implementer of the unsafe trait: it declares a LENGTH and
\* has whatever size and alignment its definition gives it, the size a
\* multiple of the alignment
TForeign(l, s, al) == [k |-> "Foreign", len |-> l, size |-> s, align |-> al]

RECURSIVE LENGTH(_)
LENGTH(ty) ==
    CASE ty.k = "Empty" -> 0
      [] ty.k = "Single" -> 1
      [] ty.k = "Wrapper" -> ty.n
      [] ty.k = "Concat" -> LENGTH(ty.a) + LENGTH(ty.b)
      [] ty.k = "Mult" -> LENGTH(ty.a) * ty.n
      [] ty.k = "Foreign" -> ty.len

RECURSIVE Conforming(_)
Conforming(ty) ==
    CASE ty.k = "Concat" -> Conforming(ty.a) /\ Conforming(ty.b)
      [] ty.k = "Mult" -> Conforming(ty.a)
      [] ty.k = "Foreign" -> FALSE
      [] OTHER -> TRUE

(***************************************************************************)
(* Layout: what rustc computes for each definition.                        *)
(***************************************************************************)
PhantomSize == 0
PhantomAlign == 1

EmptyLayout == [size |-> 0, align |-> 1]

\* [E; n]
ArrayLayout(E, n) == [size |-> E.size * n, align |-> E.align]

\* #[repr(transparent)] struct { item: T }
SingleLayout == T

\* #[repr(transparent)] struct { array: [T; N] }
WrapperLayout(n) == ArrayLayout(T, n)

\* the struct without repr(C): the compiler is free to put b before a
ConcatLayoutReordered(A, B) ==
    [size |-> A.size + B.size, align |-> Max(A.align, B.align),
     offA |-> B.size, offB |-> 0]

\* #[repr(C)] struct { a: A, b: B, phantom: PhantomData<T> }: the fields in
\* declaration order, each at the next offset its alignment allows, the
\* size rounded up to the alignment of the struct
ConcatLayout(A, B) ==
    LET offA == 0
        offB == AlignUp(offA + A.size, B.align)
        offP == AlignUp(offB + B.size, PhantomAlign)
        al == Max(Max(A.align, B.align), PhantomAlign)
    IN  [size |-> AlignUp(offP + PhantomSize, al), align |-> al,
         offA |-> offA, offB |-> offB]

\* #[repr(transparent)] struct { multiplied: [A; N], phantom: PhantomData<T> }
MultLayout(A, n) == ArrayLayout(A, n)

RECURSIVE Layout(_)
Layout(ty) ==
    CASE ty.k = "Empty" -> EmptyLayout
      [] ty.k = "Single" -> SingleLayout
      [] ty.k = "Wrapper" -> WrapperLayout(ty.n)
      [] ty.k = "Concat" -> ConcatLayout(Layout(ty.a), Layout(ty.b))
      [] ty.k = "Mult" -> MultLayout(Layout(ty.a), ty.n)
      [] ty.k = "Foreign" -> [size |-> ty.size, align |-> ty.align]

size_of(ty) == Layout(ty).size
align_of(ty) == Layout(ty).align
size_of_array(n) == ArrayLayout(T, n).size

(***************************************************************************)
(* Bytes.                                                                  *)
(***************************************************************************)
Fill(n) == [j \in 1..n |-> Uninit]

ItemBytes(x) == [j \in 1..T.size |-> (x \div Pow256(j - 1)) % 256]

RECURSIVE Decode(_)
Decode(bs) ==
    IF bs = <<>> THEN 0
    ELSE LET rest == Decode(Tail(bs))
         IN  IF Head(bs) = Uninit \/ rest = Poison THEN Poison
             ELSE Head(bs) + 256 * rest

ByteAt(mem, j) == IF j \in 1..Len(mem) THEN mem[j] ELSE Uninit

RECURSIVE Flatten(_)
Flatten(ss) == IF ss = <<>> THEN <<>> ELSE Head(ss) \o Flatten(Tail(ss))

\* a native array [T; N] or the storage behind a [T]
NativeArray(items) ==
    [len |-> Len(items),
     mem |-> Flatten([i \in 1..Len(items) |-> ItemBytes(items[i])])]

\* mem with src placed at byte offset off
Place(mem, off, src) ==
    [j \in 1..Len(mem) |->
        IF j > off /\ j <= off + Len(src) THEN src[j - off] ELSE mem[j]]

(***************************************************************************)
(* Constructors.                                                           *)
(***************************************************************************)
EmptyRecursiveArray == [ty |-> TEmpty, mem |-> Fill(EmptyLayout.size)]

RecursiveArraySingleItem_new(item) ==
    [ty |-> TSingle, mem |-> Place(Fill(SingleLayout.size), 0, ItemBytes(item))]

RecursiveArrayConcatenation_new(a, b) ==
    LET lay == ConcatLayout(Layout(a.ty), Layout(b.ty))
    IN  [ty |-> TConcat(a.ty, b.ty),
         mem |-> Place(Place(Fill(lay.size), lay.offA, a.mem), lay.offB, b.mem)]

RecursiveArrayArrayWrapper_new(array) ==
    [ty |-> TWrapper(array.len),
     mem |-> Place(Fill(WrapperLayout(array.len).size), 0, array.mem)]

\* mem with values[i..] placed one after the other, stride bytes apart
RECURSIVE PlaceAll(_, _, _, _)
PlaceAll(mem, values, i, stride) ==
    IF i > Len(values) THEN mem
    ELSE PlaceAll(Place(mem, (i - 1) * stride, values[i].mem), values, i + 1, stride)

\* values: [A; N], every one of type A
RecursiveArrayMultiplier_new(A, values) ==
    [ty |-> TMult(Len(values), A),
     mem |-> PlaceAll(Fill(MultLayout(Layout(A), Len(values)).size),
                      values, 1, Layout(A).size)]

\* the macro's recursion with the rest put before the first item
RECURSIVE RecursiveArrayRestFirst(_)
RecursiveArrayRestFirst(args) ==
    IF args = <<>> THEN EmptyRecursiveArray
    ELSE IF Len(args) = 1 THEN RecursiveArraySingleItem_new(args[1])
    ELSE RecursiveArrayConcatenation_new(
             RecursiveArrayRestFirst(Tail(args)),
             RecursiveArraySingleItem_new(Head(args)))

RECURSIVE recursive_array(_)
recursive_array(args) ==
    IF args = <<>> THEN EmptyRecursiveArray
    ELSE IF Len(args) = 1 THEN RecursiveArraySingleItem_new(args[1])
    ELSE RecursiveArrayConcatenation_new(
             RecursiveArraySingleItem_new(Head(args)),
             recursive_array(Tail(args)))


\* a value of type ty holding items, built with the constructors
RECURSIVE WithItems(_, _)
WithItems(ty, items) ==
    CASE ty.k = "Empty" -> EmptyRecursiveArray
      [] ty.k = "Single" -> RecursiveArraySingleItem_new(items[1])
      [] ty.k = "Wrapper" -> RecursiveArrayArrayWrapper_new(NativeArray(items))
      [] ty.k = "Concat" ->
            RecursiveArrayConcatenation_new(
                WithItems(ty.a, SubSeq(items, 1, LENGTH(ty.a))),
                WithItems(ty.b, SubSeq(items, LENGTH(ty.a) + 1, Len(items))))
      [] ty.k = "Mult" ->
            RecursiveArrayMultiplier_new(ty.a,
                [i \in 1..ty.n |->
                    WithItems(ty.a, SubSeq(items, (i - 1) * LENGTH(ty.a) + 1,
                                                  i * LENGTH(ty.a)))])

(***************************************************************************)
(* References and slices: a pointer is a region, a byte offset in it and   *)
(* the address that makes.                                                 *)
(***************************************************************************)
Ptr(rg, off, a) == [rg |-> rg, off |-> off, addr |-> a]
Ref(p, ty) == [ptr |-> p, ty |-> ty]
Slice(p, n) == [ptr |-> p, len |-> n]

\* whether p is aligned for T
Aligned(p) == p.addr % T.align = 0

\* the addresses values are put at: an aligned one and an odd one
Addrs == { T.align, 2 * T.align - 1 }
\* where a value of type ty may sit
Places(ty) == { a \in Addrs : a % align_of(ty) = 0 }
\* where the native buffer sits
BufBase == 4 * T.align

\* the elements a slice shows, given the bytes of the region it points into
Read(mem, s) ==
    [i \in 1..s.len |->
        Decode([j \in 1..T.size |->
                    ByteAt(mem, s.ptr.off + (i - 1) * T.size + j)])]

\* slice[i] = x
WriteElem(mem, s, i, x) == Place(mem, s.ptr.off + i * T.size, ItemBytes(x))

Ok(v) == [st |-> "ok", val |-> v]
Panic(msg) == [st |-> "panic", msg |-> msg]
\* the process aborts: from_raw_parts' precondition check, which does not unwind
Abort == [st |-> "abort"]

(***************************************************************************)
(* The trait's methods.                                                    *)
(***************************************************************************)
len(self) == LENGTH(self.ty)

\* the transmute without its size check
TransmuteUnchecked(a, sizeA, sizeB) == Ok([j \in 1..sizeB |-> ByteAt(a, j)])

\* Union { a }.b: the bytes of a read back as a B
runtime_checked_transmute(a, sizeA, sizeB) ==
    IF sizeA # sizeB THEN Panic("size")
    ELSE Ok([j \in 1..sizeB |-> ByteAt(a, j)])

from_array(Self, array) ==
    IF array.len # LENGTH(Self) THEN Panic("length")
    ELSE LET r == runtime_checked_transmute(array.mem, size_of_array(array.len),
                                            size_of(Self))
         IN  IF r.st = "ok" THEN Ok([ty |-> Self, mem |-> r.val]) ELSE r

to_array(self, N) ==
    IF N # LENGTH(self.ty) THEN Panic("length")
    ELSE LET r == runtime_checked_transmute(self.mem, size_of(self.ty),
                                            size_of_array(N))
         IN  IF r.st = "ok" THEN Ok([len |-> N, mem |-> r.val]) ELSE r

\* the length check letting a longer slice through
FromSliceAtLeast(Self, slice) ==
    IF slice.len < LENGTH(Self) THEN Panic("length")
    ELSE Ok(Ref(slice.ptr, Self))

from_slice(Self, slice) ==
    IF slice.len # LENGTH(Self) THEN Panic("length")
    ELSE Ok(Ref(slice.ptr, Self))

from_mut_slice(Self, slice) ==
    IF slice.len # LENGTH(Self) THEN Panic("length")
    ELSE Ok(Ref(slice.ptr, Self))

\* from_raw_parts(self as *const T, LENGTH): the slice, or with a pointer
\* not aligned for T either outcome of the undefined behaviour
as_slice(self) ==
    IF Aligned(self.ptr) THEN { Ok(Slice(self.ptr, LENGTH(self.ty))) }
    ELSE { Abort, Ok(Slice(self.ptr, LENGTH(self.ty))) }

\* a slice of a copy of the elements instead of the elements
AsMutSliceCopy(self) ==
    { Ok(Slice(Ptr("tmp", 0, self.ptr.addr), LENGTH(self.ty))) }

as_mut_slice(self) ==
    IF Aligned(self.ptr) THEN { Ok(Slice(self.ptr, LENGTH(self.ty))) }
    ELSE { Abort, Ok(Slice(self.ptr, LENGTH(self.ty))) }

push_back(self, item) ==
    RecursiveArrayConcatenation_new(self, RecursiveArraySingleItem_new(item))

append_back(self, array) == RecursiveArrayConcatenation_new(self, array)

push_front(self, item) ==
    RecursiveArrayConcatenation_new(RecursiveArraySingleItem_new(item), self)

append_front(self, array) == RecursiveArrayConcatenation_new(array, self)

\* v.as_slice() for v at address a, read: every outcome, the elements shown
\* when a slice is returned
View(v, a) ==
    { IF r.st = "ok" THEN Ok(Read(v.mem, r.val)) ELSE r :
        r \in as_slice(Ref(Ptr("cur", 0, a), v.ty)) }

\* the elements of a native array
Elems(array) == Read(array.mem, Slice(Ptr("buf", 0, BufBase), array.len))


(***************************************************************************)
(* Field by field: where the fields of a value put its elements.           *)
(***************************************************************************)
\* the byte offsets of the elements of a value of type ty placed at base,
\* in logical order: a's before b's, instance 0 before instance 1
RECURSIVE ElementOffsets(_, _)
ElementOffsets(ty, base) ==
    CASE ty.k = "Empty" -> <<>>
      [] ty.k = "Single" -> <<base>>
      [] ty.k = "Wrapper" -> [i \in 1..ty.n |-> base + (i - 1) * T.size]
      [] ty.k = "Concat" ->
            LET lay == ConcatLayout(Layout(ty.a), Layout(ty.b))
            IN  ElementOffsets(ty.a, base + lay.offA)
                    \o ElementOffsets(ty.b, base + lay.offB)
      [] ty.k = "Mult" ->
            Flatten([i \in 1..ty.n |->
                        ElementOffsets(ty.a, base + (i - 1) * Layout(ty.a).size)])

RECURSIVE SubTypes(_)
SubTypes(ty) ==
    CASE ty.k = "Concat" -> {ty} \cup SubTypes(ty.a) \cup SubTypes(ty.b)
      [] ty.k = "Mult" -> {ty} \cup SubTypes(ty.a)
      [] OTHER -> {ty}

(***************************************************************************)
(* The program: it makes a recursive array, builds larger ones from it in  *)
(* a few steps, and then uses the result: views it, converts it, or        *)
(* borrows it mutably and writes through the borrow.                       *)
(***************************************************************************)
NoBuf == [len |-> 0, mem |-> <<>>]
NoView == [kind |-> "none"]
SelfRef == Ref(Ptr("cur", 0, addr), cur.ty)

BuildOps == {"macro", "wrapper", "push_back", "push_front", "append_back",
             "append_front", "multiplier"}

\* the argument lists recursive_array! is given
ArgLists == { PatternSeq(1, n) : n \in 0..MaxArgs }

\* what append_back / append_front are given
Operands ==
    { EmptyRecursiveArray,
      RecursiveArrayArrayWrapper_new(NativeArray(<<30, 40>>)),
      RecursiveArrayMultiplier_new(TSingle,
          << RecursiveArraySingleItem_new(40), RecursiveArraySingleItem_new(10) >>) }

\* the arrays [A; n] Multiplier::new is given: n copies of v, or v and
\* another value of its type in turn
Peer(v) == WithItems(v.ty, PatternSeq(2, LENGTH(v.ty)))
ValueArrays(v, n) ==
    { [i \in 1..n |-> v], [i \in 1..n |-> IF i % 2 = 1 THEN v ELSE Peer(v)] }

\* implementers of bytes alone (alignment 1) and implementers aligned like
\* T, of the size of [T; LENGTH], of one T more and of one byte less
ForeignTypes ==
    UNION { { TForeign(l, s, al) :
                s \in { x \in { l * T.size, (l + 1) * T.size, l * T.size - 1 } :
                          x % al = 0 } } :
            l \in 1..2, al \in { 1, T.align } }
ForeignValue(f) ==
    [ty |-> f, mem |-> [j \in 1..f.size |-> PatternAt(j)]]

\* the native arrays the program converts from, and the buffer it slices
InputItems == { PatternSeq(3, n) : n \in 0..(MaxLen + 1) }
Backing == NativeArray(PatternSeq(1, MaxLen + 2))

\* &Backing[lo .. lo + n]
SubSlices ==
    { Slice(Ptr("buf", lo * T.size, BufBase + lo * T.size), n) :
        lo \in 0..1, n \in 0..(MaxLen + 1) }
MutSubSlices == { s \in SubSlices : s.ptr.off > 0 }

Init ==
    /\ T \in TLayouts
    /\ cur = EmptyRecursiveArray
    /\ addr \in Places(TEmpty)
    /\ buf = NoBuf
    /\ view = NoView
    /\ steps = 0
    /\ last = [op |-> "init"]

\* the program starts by making a value, which sits where its type allows
Start(v, rec) ==
    /\ last.op = "init"
    /\ cur' = v
    /\ addr' \in Places(v.ty)
    /\ last' = rec
    /\ UNCHANGED <<T, buf, view, steps>>

\* a step that builds a larger value from the one owned
Build(v, rec) ==
    /\ last.op \in BuildOps
    /\ steps < MaxSteps
    /\ LENGTH(v.ty) <= MaxLen
    /\ cur' = v
    /\ addr' \in Places(v.ty)
    /\ last' = rec
    /\ steps' = steps + 1
    /\ UNCHANGED <<T, buf, view>>

\* a use of the value built that leaves it as it is
Observe(rec) ==
    /\ last.op \in BuildOps
    /\ last' = rec
    /\ UNCHANGED <<T, cur, addr, buf, view, steps>>

Macro ==
    \E args \in ArgLists :
        Start(recursive_array(args), [op |-> "macro", args |-> args])

WrapperNew ==
    \E items \in { <<>>, <<30>>, <<30, 40>>, <<30, 40, 10>> } :
        /\ Start(RecursiveArrayArrayWrapper_new(NativeArray(items)),
                 [op |-> "wrapper", array |-> NativeArray(items)])

\* a value of some other implementer of the trait
ForeignNew ==
    \E f \in ForeignTypes : Start(ForeignValue(f), [op |-> "foreign"])

PushBack ==
    \E x \in Items :
        Build(push_back(cur, x),
              [op |-> "push_back", pre |-> cur, at |-> addr, item |-> x])

PushFront ==
    \E x \in Items :
        Build(push_front(cur, x),
              [op |-> "push_front", pre |-> cur, at |-> addr, item |-> x])

AppendBack ==
    \E r \in Operands :
        Build(append_back(cur, r),
              [op |-> "append_back", pre |-> cur, at |-> addr, arg |-> r])

AppendFront ==
    \E r \in Operands :
        Build(append_front(cur, r),
              [op |-> "append_front", pre |-> cur, at |-> addr, arg |-> r])

MultiplierNew ==
    /\ last.op \in BuildOps
    /\ \E n \in 0..MaxMul : \E values \in ValueArrays(cur, n) :
        Build(RecursiveArrayMultiplier_new(cur.ty, values),
              [op |-> "multiplier", A |-> cur.ty, values |-> values])

AsSlice ==
    /\ view.kind = "none"
    /\ last.op \in BuildOps \cup {"foreign", "from_array"}
    /\ \E r \in as_slice(SelfRef) :
        last' = [op |-> "as_slice", n |-> len(SelfRef), out |-> r]
    /\ UNCHANGED <<T, cur, addr, buf, view, steps>>

ToArray ==
    /\ last.op \in BuildOps \cup {"foreign"}
    /\ \E N \in 0..(MaxLen + 1) :
        /\ last' = [op |-> "to_array", N |-> N, out |-> to_array(cur, N)]
        /\ UNCHANGED <<T, cur, addr, buf, view, steps>>

FromArray ==
    /\ last.op \in BuildOps \cup {"foreign"}
    /\ \E items \in InputItems :
        LET array == NativeArray(items)
            r == from_array(cur.ty, array)
        IN  /\ cur' = IF r.st = "ok" THEN r.val ELSE cur
            /\ addr' \in IF r.st = "ok" THEN Places(cur.ty) ELSE {addr}
            /\ last' = [op |-> "from_array", pre |-> cur, array |-> array, out |-> r]
            /\ UNCHANGED <<T, buf, view, steps>>

FromSlice ==
    \E s \in SubSlices :
        Observe([op |-> "from_slice", mem |-> Backing.mem, slice |-> s,
                 out |-> from_slice(cur.ty, s)])

FromMutSlice ==
    /\ last.op \in BuildOps
    /\ \E s \in MutSubSlices :
        LET r == from_mut_slice(cur.ty, s)
        IN  /\ buf' = Backing
            /\ view' = IF r.st = "ok"
                       THEN [kind |-> "ref", ref |-> r.val, writes |-> 0]
                       ELSE NoView
            /\ last' = [op |-> "from_mut_slice", slice |-> s, out |-> r]
            /\ UNCHANGED <<T, cur, addr, steps>>

AsMutSlice ==
    /\ last.op \in BuildOps
    /\ \E r \in as_mut_slice(SelfRef) :
        /\ view' = IF r.st = "ok"
                   THEN [kind |-> "slice", slice |-> r.val, writes |-> 0]
                   ELSE NoView
        /\ last' = [op |-> "as_mut_slice", out |-> r]
    /\ UNCHANGED <<T, cur, addr, buf, steps>>

\* the slices the outstanding borrow gives access to
ViewSlices ==
    IF view.kind = "ref"
    THEN { r.val : r \in { q \in as_mut_slice(view.ref) : q.st = "ok" } }
    ELSE { view.slice }

\* view[i] = x
Write ==
    /\ view.kind # "none"
    /\ view.writes < MaxWrites
    /\ \E s \in ViewSlices : \E i \in 0..(s.len - 1) : \E x \in WriteItems :
        /\ cur' = IF s.ptr.rg = "cur"
                  THEN [cur EXCEPT !.mem = WriteElem(cur.mem, s, i, x)]
                  ELSE cur
        /\ buf' = IF s.ptr.rg = "buf"
                  THEN [buf EXCEPT !.mem = WriteElem(buf.mem, s, i, x)]
                  ELSE buf
        /\ last' = [op |-> "write", i |-> i, item |-> x, slice |-> s,
                    pre |-> cur, prebuf |-> buf]
    /\ view' = [view EXCEPT !.writes = @ + 1]
    /\ UNCHANGED <<T, addr, steps>>

Next ==
    \/ Macro
    \/ WrapperNew
    \/ ForeignNew
    \/ PushBack
    \/ PushFront
    \/ AppendBack
    \/ AppendFront
    \/ MultiplierNew
    \/ AsSlice
    \/ ToArray
    \/ FromArray
    \/ FromSlice
    \/ FromMutSlice
    \/ AsMutSlice
    \/ Write

Spec == Init /\ [][Next]_vars

(***************************************************************************)
(* The properties.                                                         *)
(***************************************************************************)
Built == last.op # "init" /\ Conforming(cur.ty)
FlatOffsets(n) == [i \in 1..n |-> (i - 1) * T.size]
\* the elements of v a returned slice shows
Shown(v) == Read(v.mem, Slice(Ptr("cur", 0, 0), LENGTH(v.ty)))

\* C1: every type built from the five variants, and every type nested in
\* it, has size LENGTH * size_of(T); its elements sit at offsets
\* 0, size_of(T), 2 * size_of(T), ... in logical order; the value has no
\* padding byte.
C1_Layout ==
    Built =>
        /\ \A ty \in SubTypes(cur.ty) :
            /\ size_of(ty) = LENGTH(ty) * T.size
            /\ ElementOffsets(ty, 0) = FlatOffsets(LENGTH(ty))
        /\ Len(cur.mem) = size_of(cur.ty)
        /\ \A j \in 1..Len(cur.mem) : cur.mem[j] # Uninit

C1_Witness ==
    /\ last.op = "multiplier"
    /\ T.size = 4
    /\ cur.ty.n = 2
    /\ cur.ty.a.k = "Concat"
    /\ LENGTH(cur.ty) = 4

\* C2 (as claimed): as_slice() of every conforming value returns a slice of
\* LENGTH elements and len() returns LENGTH, where LENGTH counts the
\* elements the value holds; the empty array shows [] and single(x) shows
\* [x].
C2_Length ==
    Built =>
        /\ len(SelfRef) = Len(ElementOffsets(cur.ty, 0))
        /\ last.op = "as_slice" =>
              /\ last.out.st = "ok"
              /\ last.out.val.len = Len(ElementOffsets(cur.ty, 0))
              /\ last.n = last.out.val.len
              /\ cur.ty.k = "Empty" => Read(cur.mem, last.out.val) = <<>>
        /\ last.op = "macro" /\ Len(last.args) = 1 =>
              View(cur, addr) = { Ok(last.args) }

\* the empty array at an odd address, T of alignment 2: as_slice() aborts
C2_Misaligned ==
    /\ last.op = "as_slice"
    /\ cur = EmptyRecursiveArray
    /\ T.align = 2
    /\ addr % T.align = 1
    /\ last.out = Abort

\* C3 (as claimed): Concatenation::new(a, b).as_slice() is a.as_slice()
\* followed by b.as_slice(); append_back(a, r) is that concatenation and
\* append_front(a, r) shows r's elements then a's.
C3_Append ==
    /\ last.op = "append_back" =>
          /\ cur = RecursiveArrayConcatenation_new(last.pre, last.arg)
          /\ View(cur, addr) = { Ok(Shown(last.pre) \o Shown(last.arg)) }
    /\ last.op = "append_front" =>
          /\ cur = RecursiveArrayConcatenation_new(last.arg, last.pre)
          /\ View(cur, addr) = { Ok(Shown(last.arg) \o Shown(last.pre)) }

\* the concatenation of two empty arrays at an odd address
C3_Misaligned ==
    /\ last.op = "append_back"
    /\ cur.ty = TConcat(TEmpty, TEmpty)
    /\ addr % T.align = 1
    /\ Abort \in View(cur, addr)

\* C4 (as claimed): Multiplier::new(values).as_slice() is the elements of
\* values[0], then of values[1], ..., LENGTH(A) * N of them, for every
\* N >= 0.
C4_Multiplier ==
    last.op = "multiplier" =>
        /\ LENGTH(cur.ty) = LENGTH(last.A) * Len(last.values)
        /\ View(cur, addr) =
              { Ok(Flatten([i \in 1..Len(last.values) |-> Shown(last.values[i])])) }

\* two empty arrays multiplied, at an odd address
C4_Misaligned ==
    /\ last.op = "multiplier"
    /\ cur.ty = TMult(2, TEmpty)
    /\ addr % T.align = 1
    /\ Abort \in View(cur, addr)

\* C5 (as claimed): a.push_back(x).as_slice() is a.as_slice() with x
\* appended, a.push_front(x).as_slice() is x followed by a.as_slice(), and
\* either is one longer than a.
C5_Push ==
    /\ last.op = "push_back" =>
          /\ LENGTH(cur.ty) = LENGTH(last.pre.ty) + 1
          /\ \A ra \in View(last.pre, last.at) : \A rc \in View(cur, addr) :
                ra.st = "ok" /\ rc.st = "ok" /\ rc.val = Append(ra.val, last.item)
    /\ last.op = "push_front" =>
          /\ LENGTH(cur.ty) = LENGTH(last.pre.ty) + 1
          /\ \A ra \in View(last.pre, last.at) : \A rc \in View(cur, addr) :
                ra.st = "ok" /\ rc.st = "ok" /\ rc.val = <<last.item>> \o ra.val

\* a push on the empty array that sat at an odd address: the result shows
\* the item, a.as_slice() aborts
C5_Misaligned ==
    /\ last.op = "push_back"
    /\ last.pre = EmptyRecursiveArray
    /\ Abort \in View(last.pre, last.at)
    /\ View(cur, addr) = { Ok(<<last.item>>) }

\* C6: from_slice, from_mut_slice, from_array and to_array panic with the
\* length mismatch exactly when the length given differs from LENGTH; the
\* panic comes before anything else: no reference, value or array is
\* produced, and nothing the program owns has changed.
C6_Mismatch ==
    Built =>
        /\ last.op \in {"from_slice", "from_mut_slice"} =>
              /\ last.out = Panic("length") <=> last.slice.len # LENGTH(cur.ty)
              /\ last.slice.len = LENGTH(cur.ty) =>
                    last.out = Ok(Ref(last.slice.ptr, cur.ty))
        /\ last.op = "from_mut_slice" /\ last.out.st = "panic" => view = NoView
        /\ last.op = "to_array" =>
              /\ last.out = Panic("length") <=> last.N # LENGTH(cur.ty)
              /\ last.N = LENGTH(cur.ty) => last.out.st = "ok"
        /\ last.op = "from_array" =>
              /\ last.out = Panic("length") <=> last.array.len # LENGTH(last.pre.ty)
              /\ last.out.st = "panic" => cur = last.pre
              /\ last.array.len = LENGTH(last.pre.ty) => last.out.st = "ok"

C6_Witness ==
    /\ last.op = "from_slice"
    /\ Conforming(cur.ty)
    /\ LENGTH(cur.ty) = 3
    /\ last.slice.len = 4
    /\ last.out = Panic("length")

\* C7 (as claimed): for every value v, to_array::<LENGTH>() gives the
\* elements of v.as_slice() in order, from_array of that array gives a
\* value whose as_slice() shows the same elements, and
\* from_slice(v.as_slice()).as_slice() shows the same elements.
C7_RoundTrip ==
    Built =>
        /\ last.op = "to_array" /\ last.N = LENGTH(cur.ty) =>
              /\ last.out.st = "ok"
              /\ View(cur, addr) = { Ok(Elems(last.out.val)) }
              /\ LET back == from_array(cur.ty, last.out.val)
                 IN  /\ back.st = "ok"
                     /\ \A a \in Places(cur.ty) :
                           View(back.val, a) = { Ok(Elems(last.out.val)) }
        /\ last.op = "from_array" /\ last.out.st = "ok" =>
              View(cur, addr) = { Ok(Elems(last.array)) }
        /\ last.op = "as_slice" =>
              /\ last.out.st = "ok"
              /\ LET r == from_slice(cur.ty, last.out.val)
                 IN  /\ r.st = "ok"
                     /\ \A q \in as_slice(r.val) :
                           q.st = "ok" /\ Read(cur.mem, q.val) = Shown(cur)
        /\ last.op = "from_slice" /\ last.out.st = "ok" =>
              \A q \in as_slice(last.out.val) :
                  q.st = "ok" /\ Read(last.mem, q.val) = Read(last.mem, last.slice)

\* the empty array at an odd address: to_array::<0>() succeeds, as_slice()
\* aborts
C7_Misaligned ==
    /\ last.op = "to_array"
    /\ last.N = 0
    /\ cur = EmptyRecursiveArray
    /\ last.out.st = "ok"
    /\ Abort \in View(cur, addr)

\* C8: recursive_array![v0, ..., vk] shows [v0, ..., vk] and has length
\* k + 1; with no arguments it is the empty array, of length 0.  Built from
\* 10, 20, 30 and pushed 40 at the back, the value shows [10, 20, 30, 40]
\* and to_array::<4>() gives [10, 20, 30, 40].
C8_Macro ==
    /\ last.op = "macro" =>
          /\ LENGTH(cur.ty) = Len(last.args)
          /\ last.args # <<>> => View(cur, addr) = { Ok(last.args) }
          /\ last.args = <<>> => cur = EmptyRecursiveArray
    /\ LET v == recursive_array(<<10, 20, 30>>)
       IN  /\ last.op = "macro" /\ last.args = <<10, 20, 30>> => cur = v
           /\ cur = push_back(v, 40) =>
                 /\ View(cur, addr) = { Ok(<<10, 20, 30, 40>>) }
                 /\ to_array(cur, 4).st = "ok"
                 /\ Elems(to_array(cur, 4).val) = <<10, 20, 30, 40>>
                 /\ to_array(cur, 5) = Panic("length")

C8_Witness ==
    /\ last.op = "to_array"
    /\ cur = push_back(recursive_array(<<10, 20, 30>>), 40)
    /\ last.N = 4
    /\ last.out.st = "ok"
    /\ Elems(last.out.val) = <<10, 20, 30, 40>>

\* C9: from_array and to_array check the length first and the size second:
\* with N = LENGTH they still panic when size_of(Self) differs from
\* size_of([T; N]), and they produce a value only when both checks pass.
C9_SizeGate ==
    /\ last.op = "to_array" =>
          last.out.st =
              IF last.N # LENGTH(cur.ty) THEN "panic"
              ELSE IF size_of(cur.ty) # size_of_array(last.N) THEN "panic" ELSE "ok"
    /\ last.op = "to_array" /\ last.out.st = "panic" =>
          last.out.msg = IF last.N # LENGTH(cur.ty) THEN "length" ELSE "size"
    /\ last.op = "from_array" =>
          last.out.st =
              IF last.array.len # LENGTH(last.pre.ty) THEN "panic"
              ELSE IF size_of(last.pre.ty) # size_of_array(last.array.len)
                   THEN "panic" ELSE "ok"
    /\ last.op = "from_array" /\ last.out.st = "panic" =>
          /\ last.out.msg =
                IF last.array.len # LENGTH(last.pre.ty) THEN "length" ELSE "size"
          /\ cur = last.pre

C9_Witness ==
    /\ last.op = "to_array"
    /\ cur.ty.k = "Foreign"
    /\ last.N = LENGTH(cur.ty)
    /\ size_of(cur.ty) # size_of_array(last.N)
    /\ last.out = Panic("size")

\* C10: a write to index i through the slice as_mut_slice() returned, or
\* through the reference from_mut_slice gave, changes element i of the
\* storage viewed and nothing else: the other elements, the type and the
\* length stay, and as_slice() (or a read of the buffer) shows the write.
\* This holds of every write of a sequence of writes through the same
\* borrow, and after each of them the slice still has LENGTH elements and
\* the value its size.
C10_Write ==
    last.op = "write" =>
        /\ cur.ty = last.pre.ty
        /\ view.writes \in 1..MaxWrites
        /\ last.slice.len = LENGTH(cur.ty)
        /\ Len(cur.mem) = size_of(cur.ty)
        /\ \A s \in ViewSlices : s = last.slice
        /\ view.kind = "slice" =>
              /\ View(cur, addr) =
                    { Ok([Shown(last.pre) EXCEPT ![last.i + 1] = last.item]) }
              /\ View(last.pre, addr) = { Ok(Shown(last.pre)) }
              /\ Len(Shown(cur)) = LENGTH(last.pre.ty)
              /\ buf = last.prebuf
        /\ view.kind = "ref" =>
              /\ cur = last.pre
              /\ buf.len = last.prebuf.len
              /\ Elems(buf) =
                    [Elems(last.prebuf) EXCEPT
                        ![(view.ref.ptr.off \div T.size) + last.i + 1] = last.item]
              /\ \A q \in as_slice(view.ref) :
                    /\ q.st = "ok"
                    /\ q.val.len = LENGTH(cur.ty)
                    /\ Read(buf.mem, q.val)[last.i + 1] = last.item

\* the second write of a sequence: [10, 20, 30] written at index 0 and then
\* at index 2 shows both writes
C10_Witness ==
    /\ last.op = "write"
    /\ view.kind = "slice"
    /\ view.writes = 2
    /\ T.size = 4
    /\ last.i = 2
    /\ Shown(last.pre) = <<40, 20, 30>>
    /\ Shown(cur) = <<40, 20, 20>>
    /\ Shown(last.pre)[3] # last.item
    /\ View(cur, addr) = { Ok([Shown(last.pre) EXCEPT ![3] = last.item]) }
    /\ Shown(cur)[1] = Shown(last.pre)[1]

=============================================================================
